---- MODULE Spec2Model ----
(***************************************************************************)
(* Model of the telemetry gateway of satvikel4/vehicle-telemetry.          *)
(*                                                                         *)
(* The repository holds two gateway entry points:                          *)
(*   src/unnamed/part_001  in-process fan-out (streamClients), guarded     *)
(*                         upsert and non-awaited Redis publish;           *)
(*   src/unnamed/part_000  one Redis subscriber per observer, awaited      *)
(*                         upsert and awaited publish in one outer try.    *)
(* The variable `build` says which of the two is the running process; it   *)
(* is fixed by Init and never changes.                                     *)
(***************************************************************************)
EXTENDS Integers, Sequences, FiniteSets, TLC

(* ------------------------------ bounds --------------------------------- *)
MaxMsgs  == 2     \* ingest messages received in one behaviour
MaxClock == 1     \* values taken by Date.now() / new Date()
MaxCmds  == 2     \* POST /api/command requests in one behaviour
MaxRetries == 11  \* reconnect attempts counted during one outage

Handlers  == 1..MaxMsgs
Observers == {"o1", "o2"}
Agents    == {"a1", "a2"}      \* ingest connections
Requests  == 1..MaxCmds
Builds    == {"part_001", "part_000"}

(* --------------------------- JSON values ------------------------------- *)
\* A value is its type and its content: the text of a string, the value of
\* a number or boolean, the elements of an array, the <<key, value>> pairs
\* of an object.  An ObjectId is what the MongoDB driver puts into a
\* document; it is not JSON.
Str(s)  == [t |-> "string",   v |-> s]
Num(n)  == [t |-> "number",   v |-> n]
Arr(a)  == [t |-> "array",    v |-> a]
Obj(o)  == [t |-> "object",   v |-> o]
Bool(b) == [t |-> "boolean",  v |-> b]
Null    == [t |-> "null",     v |-> 0]
Oid(n)  == [t |-> "objectid", v |-> n]

\* Decimal text of a natural number, as String(n) and template literals
\* produce it.
Digits == <<"0", "1", "2", "3", "4", "5", "6", "7", "8", "9">>
RECURSIVE NumString(_)
NumString(n) ==
    IF n < 10 THEN Digits[n + 1]
    ELSE NumString(n \div 10) \o Digits[(n % 10) + 1]

\* z.object({...}) of part_001:62-73 (the same text at part_000:29-40).
RequiredKeys == {"vehicleId", "ts", "speedKph", "soc", "batteryTempC",
                 "motorTempC", "lat", "lng"}
OptionalKeys == {"faults", "meta"}
KeyType(k) == IF k = "vehicleId" THEN "string"
              ELSE IF k = "faults" THEN "array"
              ELSE IF k = "meta" THEN "record"
              ELSE "number"
\* z.array(z.string()): the type of the elements; z.record(z.string(),
\* z.any()) puts no condition on its values.
ElementType(k) == IF k = "faults" THEN "string" ELSE "any"
Telemetry == [required |-> RequiredKeys, optional |-> OptionalKeys]

\* The value v passes the schema of key k.
Conforms(v, k) ==
    IF KeyType(k) = "array"
    THEN v.t = "array" /\ \A i \in DOMAIN v.v : v.v[i].t = ElementType(k)
    ELSE IF KeyType(k) = "record" THEN v.t = "object"
    ELSE v.t = KeyType(k)

\* The meta object of the simulator.
SimMeta == Obj(<< <<"firmware", Str("sim-v1.0")>>, <<"tripId", Str("trip_x")>> >>)

\* The payload of the simulator (simulator/index.js:36-47): the eight
\* measurements, faults (possibly empty) and meta.
Sample(v, ts, speed) ==
    [k \in RequiredKeys \cup OptionalKeys |->
        IF k = "vehicleId" THEN Str(v)
        ELSE IF k = "ts" THEN Num(ts)
        ELSE IF k = "speedKph" THEN Num(speed)
        ELSE IF k = "faults" THEN Arr(<<>>)
        ELSE IF k = "meta" THEN SimMeta
        ELSE Num(0)]

WithKey(obj, key, val) ==
    [k \in DOMAIN obj \cup {key} |-> IF k = key THEN val ELSE obj[k]]
WithoutKey(obj, key) == [k \in DOMAIN obj \ {key} |-> obj[k]]

\* A websocket frame: text that is JSON of an object, JSON of a scalar, or
\* not JSON at all.
Text(obj)  == [kind |-> "object", value |-> obj]
Garbage    == [kind |-> "garbage", value |-> <<>>]
ScalarText == [kind |-> "scalar", value |-> <<>>]

R1 == WithKey(Sample("v1", 1, 42), "faults", Arr(<<Str("OVERHEAT_WARN")>>))
R2 == Sample("v1", 2, 50)
\* a valid report without the optional keys that carries a key the schema
\* does not know
R4x == WithKey(WithoutKey(WithoutKey(Sample("v2", 2, 20), "faults"), "meta"),
               "firmware", Str("sim"))

ValidMsgs == {Text(R1), Text(R2), Text(R4x)}
BadMsgs ==
    { Garbage, ScalarText,
      Text(WithoutKey(R2, "vehicleId")),
      Text(WithKey(R2, "ts", Str("soon"))),
      Text(WithKey(R2, "faults", Str("none"))),
      Text(WithKey(R2, "faults", Arr(<<Num(7)>>))),
      Text(WithKey(R2, "meta", Str("x"))) }
Msgs == ValidMsgs \cup BadMsgs

\* JSON.parse(msg.toString()): throws on text that is not JSON.
JSON_parse_ok(msg) == msg.kind # "garbage"

\* Mutant: the schema checks that the keys are present, not their types.
Telemetry_parse_ok_lax(msg) ==
    /\ msg.kind = "object"
    /\ \A k \in Telemetry.required : k \in DOMAIN msg.value

\* Telemetry.parse: throws unless the value is an object whose required keys
\* are present and conform and whose optional keys, when present, conform.
Telemetry_parse_ok(msg) ==
    /\ msg.kind = "object"
    /\ \A k \in Telemetry.required :
          k \in DOMAIN msg.value /\ Conforms(msg.value[k], k)
    /\ \A k \in Telemetry.optional :
          k \in DOMAIN msg.value => Conforms(msg.value[k], k)

\* The parsed value: z.object strips the keys the schema does not name.
Telemetry_parse(msg) ==
    [k \in DOMAIN msg.value \cap (Telemetry.required \cup Telemetry.optional)
        |-> msg.value[k]]

\* The hexadecimal text of an ObjectId (its toJSON).
OidHex(n) == "oid" \o NumString(n)

\* JSON.stringify of an object: an ObjectId inside becomes its hex string,
\* everything else is written as it is.
ToJSON(v) == IF v.t = "objectid" THEN Str(OidHex(v.v)) ELSE v
JSON_stringify(data) == Text([k \in DOMAIN data |-> ToJSON(data[k])])
JSON_parse(payload)  == payload.value

NoData == [k \in {} |-> Num(0)]
EmptyObject == NoData

(* ------------------------------- state --------------------------------- *)
VARIABLES
    build,        \* which entry point is running
    proc,         \* the gateway process: "booting", "running" or "exited"
    now,          \* the wall clock read by new Date() and Date.now()
    ingestState,  \* per ingest connection: ws.readyState
    nextMsg,      \* number of frames received on the ingest connections
    handler,      \* per frame: the async 'message' handler's data and pc
    rawOp,        \* per frame: state of rawColl.insertOne
    rawColl,      \* telemetry_raw, in arrival order
    upOp,         \* per frame: state of latestColl.updateOne
    latestColl,   \* vehicle_state_latest: a set of documents
    appliedOrder, \* handlers in the order the store applied their upserts
    redisUp,      \* redisPub is connected (the subscribers are clients of
                  \* their own)
    offlineQueue, \* ioredis offline queue of redisPub
    channelLog,   \* messages the Redis server has published, in order
    pubOp,        \* per frame: state of the publish promise
    readyState,   \* per observer: ws.readyState
    streamClients,\* part_001: the in-process registry
    subState,     \* part_000: per observer, its own Redis client: none,
                  \* subscribing, subscribed, resubscribing (after it lost
                  \* its connection), rejected, disconnecting (disconnect()
                  \* called with the subscribe still pending), disconnected
    subInbox,     \* part_000: per observer, messages the server has pushed to
                  \* its subscriber and whose 'message' callback has not run
    cleanups,     \* per observer: times the 'close' listener has run
    events,       \* per observer: transport events emitted so far
    received,     \* per observer: payloads passed to ws.send
    nextCmd,      \* number of POST /api/command requests received
    cmd,          \* per request: body, ts, pc, response, insert and publish
                  \* promises
    cmdColl,      \* commands_log, in the order the store wrote it
    query,        \* the GET /api/state/:vehicleId request in flight
    lastQuery,    \* the last response to GET /api/state/:vehicleId
    retryTimes,   \* redisPub: reconnect attempts of the current outage
    retryDelay,   \* redisPub: what retryStrategy returned for the last one
    stalled,      \* per observer: -1, or how many payloads its peer had read
                  \* when it stopped reading (the rest sits in the send buffer)
    lastUpgrade   \* the last upgrade request and what became of it

procVars   == <<build, proc>>
ingestVars == <<ingestState, nextMsg, handler>>
storeVars  == <<rawOp, rawColl, upOp, latestColl, appliedOrder>>
redisVars  == <<redisUp, offlineQueue, channelLog, pubOp>>
obsVars    == <<readyState, streamClients, subState, cleanups, events>>
cmdVars    == <<nextCmd, cmd, cmdColl>>
queryVars  == <<query, lastQuery>>
retryVars  == <<retryTimes, retryDelay>>
vars == <<procVars, now, ingestVars, storeVars, redisVars, obsVars, subInbox,
          received, cmdVars, queryVars, retryVars, stalled, lastUpgrade>>

NoCmd  == [body |-> NoData, ts |-> 0, pc |-> "unused", resp |-> "none",
           ins |-> "none", pub |-> "none"]
NoUpgrade == [url |-> <<>>, result |-> "none"]
NoQuery == [vehicleId |-> "", status |-> 0, body |-> NoData]
NoRequest == [pc |-> "idle", vehicleId |-> "", result |-> NoQuery]
Idle   == [pc |-> "unused", conn |-> "", data |-> NoData, updatedAt |-> 0]

\* The process has been started: nothing is connected, nothing is stored.
Init ==
    /\ build \in Builds
    /\ proc = "booting"
    /\ now = 0
    /\ ingestState = [c \in Agents |-> "NONE"]
    /\ nextMsg = 0
    /\ handler = [h \in Handlers |-> Idle]
    /\ rawOp = [h \in Handlers |-> "none"]
    /\ rawColl = <<>>
    /\ upOp = [h \in Handlers |-> "none"]
    /\ latestColl = {}
    /\ appliedOrder = <<>>
    /\ redisUp = TRUE
    /\ offlineQueue = <<>>
    /\ channelLog = <<>>
    /\ pubOp = [h \in Handlers |-> "none"]
    /\ readyState = [o \in Observers |-> "NONE"]
    /\ streamClients = {}
    /\ subState = [o \in Observers |-> "none"]
    /\ subInbox = [o \in Observers |-> <<>>]
    /\ cleanups = [o \in Observers |-> 0]
    /\ events = [o \in Observers |-> <<>>]
    /\ received = [o \in Observers |-> <<>>]
    /\ nextCmd = 0
    /\ cmd = [r \in Requests |-> NoCmd]
    /\ cmdColl = <<>>
    /\ query = NoRequest
    /\ lastQuery = NoQuery
    /\ retryTimes = 0
    /\ retryDelay = 0
    /\ stalled = [o \in Observers |-> -1]
    /\ lastUpgrade = NoUpgrade

(* -------------------------------- Boot --------------------------------- *)
\* initMongo().then(server.listen).catch(process.exit(1)): the gateway
\* serves once the store is connected and indexed, or the process ends.
Boot(ok) ==
    /\ proc = "booting"
    /\ proc' = IF ok THEN "running" ELSE "exited"
    /\ UNCHANGED <<build, now, ingestVars, storeVars, redisVars, obsVars,
                   subInbox, received, cmdVars, queryVars, retryVars, stalled,
                   lastUpgrade>>

\* Every callback of the gateway runs in the process; once the process has
\* ended the model follows nothing further.
Running == proc = "running"

(* ------------------------------ the clock ------------------------------ *)
Tick ==
    /\ Running
    /\ now < MaxClock
    /\ now' = now + 1
    /\ UNCHANGED <<procVars, ingestVars, storeVars, redisVars, obsVars,
                   subInbox, received, cmdVars, queryVars, retryVars, stalled,
                   lastUpgrade>>

(* ------------------------- Redis publisher ----------------------------- *)
Item(channel, payload, src, id) ==
    [channel |-> channel, payload |-> payload, src |-> src, id |-> id]

\* part_000:122-123: the Redis server pushes a message published on
\* "telemetry" to every subscriber that is subscribed at that moment.
SubDeliver(inbox, item) ==
    [o \in Observers |->
        IF item.channel = "telemetry" /\ subState[o] = "subscribed"
        THEN Append(inbox[o], item.payload) ELSE inbox[o]]

RECURSIVE SubDeliverAll(_, _)
SubDeliverAll(inbox, items) ==
    IF items = <<>> THEN inbox
    ELSE SubDeliverAll(SubDeliver(inbox, Head(items)), Tail(items))

\* Mutant: the loop sends to every registered client, open or not.
LocalFanout_noReadyCheck(rcv, payload) ==
    [o \in Observers |->
        IF o \in streamClients THEN Append(rcv[o], payload) ELSE rcv[o]]

\* Mutant: send waits for the peer, so the loop stops at a stalled client.
LocalFanout_blocking(rcv, payload) ==
    [o \in Observers |->
        IF /\ o \in streamClients /\ readyState[o] = "OPEN"
           /\ \A q \in streamClients : readyState[q] = "OPEN" => stalled[q] = -1
        THEN Append(rcv[o], payload) ELSE rcv[o]]

\* part_001:143-146: the in-process fan-out loop.
LocalFanout(rcv, payload) ==
    [o \in Observers |->
        IF o \in streamClients /\ readyState[o] = "OPEN"
        THEN Append(rcv[o], payload) ELSE rcv[o]]

(* --------------------------- ingest pipeline --------------------------- *)
\* The document rawColl.insertOne(data) is called with: the driver puts a
\* fresh _id into the very object it is given, and that object is the one
\* the handler afterwards stores as `last` and serializes.
WithId(data, h) == WithKey(data, "_id", Oid(h))

\* ws.on('message'): parse and validate; a throw lands in the outer catch and
\* the frame is dropped.  A valid frame starts the raw insert (not awaited)
\* and the upsert (awaited).
Receive(c, m) ==
    /\ Running
    /\ ingestState[c] = "OPEN"
    /\ nextMsg < MaxMsgs
    /\ nextMsg' = nextMsg + 1
    /\ LET h == nextMsg + 1 IN
       IF JSON_parse_ok(m) /\ Telemetry_parse_ok(m)
       THEN /\ handler' = [handler EXCEPT ![h] =
                  [pc |-> "awaitUpsert", conn |-> c,
                   data |-> WithId(Telemetry_parse(m), h),
                   updatedAt |-> now]]
            /\ rawOp' = [rawOp EXCEPT ![h] = "pending"]
            /\ upOp' = [upOp EXCEPT ![h] = "issued"]
       ELSE /\ handler' = [handler EXCEPT ![h] =
                  [pc |-> "dropped", conn |-> c, data |-> NoData,
                   updatedAt |-> 0]]
            /\ UNCHANGED <<rawOp, upOp>>
    /\ UNCHANGED <<procVars, now, ingestState, rawColl, latestColl,
                   appliedOrder, redisVars, obsVars, subInbox, received,
                   cmdVars, queryVars, retryVars, stalled, lastUpgrade>>

\* Mutant: the insert has no .catch, and its rejection ends the process.
RawInsertDone_uncaught(h, ok) ==
    /\ Running
    /\ rawOp[h] = "pending"
    /\ rawOp' = [rawOp EXCEPT ![h] = IF ok THEN "ok" ELSE "failed"]
    /\ rawColl' = IF ok THEN Append(rawColl, handler[h].data) ELSE rawColl
    /\ proc' = IF ok THEN proc ELSE "exited"
    /\ UNCHANGED <<build, now, ingestVars, upOp, latestColl, appliedOrder,
                   redisVars, obsVars, subInbox, received, cmdVars, queryVars,
                   retryVars, stalled, lastUpgrade>>

\* rawColl.insertOne(data).catch(...): completes or fails on its own.
RawInsertDone(h, ok) ==
    /\ Running
    /\ rawOp[h] = "pending"
    /\ rawOp' = [rawOp EXCEPT ![h] = IF ok THEN "ok" ELSE "failed"]
    /\ rawColl' = IF ok THEN Append(rawColl, handler[h].data) ELSE rawColl
    /\ UNCHANGED <<procVars, now, ingestVars, upOp, latestColl, appliedOrder,
                   redisVars, obsVars, subInbox, received, cmdVars, queryVars,
                   retryVars, stalled, lastUpgrade>>

(* ------------------- latestColl.updateOne(..., upsert) ----------------- *)
VehicleOf(data) == data["vehicleId"].v

Matching(coll, vid) == {d \in coll : d.vehicleId = vid}

\* { $set: { last: data, updatedAt: new Date() } } on a matched document:
\* the two named fields are replaced whole, _id and vehicleId stay.
SetLast(d, data, at) == [d EXCEPT !.last = data, !.updatedAt = at]

\* Mutant: the collection has no unique index on vehicleId.
UniqueIndexAllows_none(coll, vid) == TRUE

\* createIndex({ vehicleId: 1 }, { unique: true }): an insert is accepted
\* only when no document holds the key.
UniqueIndexAllows(coll, vid) == Matching(coll, vid) = {}

\* The document an upsert inserts when the filter matched nothing.
NewDoc(h, data, at) ==
    [_id |-> h, vehicleId |-> VehicleOf(data), last |-> data, updatedAt |-> at]

Updated(coll, data, at) ==
    {IF d.vehicleId = VehicleOf(data) THEN SetLast(d, data, at) ELSE d : d \in coll}

DocOf(coll, vid) == CHOOSE d \in Matching(coll, vid) : TRUE

Applied(h, coll) ==
    /\ upOp' = [upOp EXCEPT ![h] = "applied"]
    /\ latestColl' = coll
    /\ appliedOrder' = Append(appliedOrder, h)

\* The store evaluates the filter { vehicleId }.
StoreFind(h) ==
    /\ Running
    /\ upOp[h] = "issued"
    /\ upOp' = [upOp EXCEPT ![h] =
          IF Matching(latestColl, VehicleOf(handler[h].data)) # {}
          THEN "matched" ELSE "unmatched"]
    /\ UNCHANGED <<procVars, now, ingestVars, rawOp, rawColl, latestColl,
                   appliedOrder, redisVars, obsVars, subInbox, received,
                   cmdVars, queryVars, retryVars, stalled, lastUpgrade>>

\* The store writes: an update of the matched document, or an insert.
StoreApply(h) ==
    /\ Running
    /\ upOp[h] \in {"matched", "unmatched"}
    /\ LET data == handler[h].data
           at   == handler[h].updatedAt
       IN  IF upOp[h] = "matched"
           THEN Applied(h, Updated(latestColl, data, at))
           ELSE /\ UniqueIndexAllows(latestColl, VehicleOf(data))
                /\ Applied(h, latestColl \cup {NewDoc(h, data, at)})
    /\ UNCHANGED <<procVars, now, ingestVars, rawOp, rawColl, redisVars,
                   obsVars, subInbox, received, cmdVars, queryVars, retryVars,
                   stalled, lastUpgrade>>

\* An insert that lost the race for the key is refused by the unique index
\* (E11000); the store retries the operation as an update.
StoreRetryAsUpdate(h) ==
    /\ Running
    /\ upOp[h] = "unmatched"
    /\ ~UniqueIndexAllows(latestColl, VehicleOf(handler[h].data))
    /\ upOp' = [upOp EXCEPT ![h] = "matched"]
    /\ UNCHANGED <<procVars, now, ingestVars, rawOp, rawColl, latestColl,
                   appliedOrder, redisVars, obsVars, subInbox, received,
                   cmdVars, queryVars, retryVars, stalled, lastUpgrade>>

\* The operation fails (store unreachable, duplicate key surfaced, ...):
\* updateOne rejects.
StoreFail(h) ==
    /\ Running
    /\ upOp[h] \in {"issued", "matched", "unmatched"}
    /\ upOp' = [upOp EXCEPT ![h] = "failed"]
    /\ UNCHANGED <<procVars, now, ingestVars, rawOp, rawColl, latestColl,
                   appliedOrder, redisVars, obsVars, subInbox, received,
                   cmdVars, queryVars, retryVars, stalled, lastUpgrade>>

(* -------------------- redisPub.publish(channel, payload) --------------- *)
\* Connected: the server publishes at once.  Not connected: ioredis keeps
\* the command in its offline queue (enableOfflineQueue is left at its
\* default).
PublishLog(log, channel, payload) ==
    IF redisUp THEN Append(log, [channel |-> channel, payload |-> payload])
    ELSE log
PublishQueue(q, channel, payload, src, id) ==
    IF redisUp THEN q ELSE Append(q, Item(channel, payload, src, id))

\* Mutant: the handler does not wait for the upsert.
UpsertSettled_noawait(h) == TRUE

\* `await latestColl.updateOne(...)`: the handler resumes when the promise
\* has settled.
UpsertSettled(h) == upOp[h] \in {"applied", "failed"}

\* The continuation of the handler after `await latestColl.updateOne(...)`.
\* part_001 sends to its registered clients in the same turn.  part_000 only
\* calls publish: the server hands the message to the subscribers, whose
\* callbacks run in later turns (SubMessage).
UpsertReturn(h) ==
    /\ Running
    /\ handler[h].pc = "awaitUpsert"
    /\ UpsertSettled(h)
    /\ LET payload == JSON_stringify(handler[h].data) IN
       IF build = "part_001"
       THEN \* inner try/catch logs a failure; publish is not awaited; fan-out
            /\ channelLog' = PublishLog(channelLog, "telemetry", payload)
            /\ offlineQueue' = PublishQueue(offlineQueue, "telemetry", payload, "ingest", h)
            /\ UNCHANGED <<pubOp, subInbox>>
            /\ received' = LocalFanout(received, payload)
            /\ handler' = [handler EXCEPT ![h].pc = "done"]
       ELSE IF upOp[h] = "failed"
       THEN \* the rejection lands in the outer catch: nothing more happens
            /\ handler' = [handler EXCEPT ![h].pc = "done"]
            /\ UNCHANGED <<channelLog, offlineQueue, pubOp, received, subInbox>>
       ELSE \* await redisPub.publish('telemetry', JSON.stringify(data))
            /\ channelLog' = PublishLog(channelLog, "telemetry", payload)
            /\ offlineQueue' = PublishQueue(offlineQueue, "telemetry", payload, "ingest", h)
            /\ pubOp' = [pubOp EXCEPT ![h] = IF redisUp THEN "ok" ELSE "queued"]
            /\ subInbox' = IF redisUp
                           THEN SubDeliver(subInbox, Item("telemetry", payload, "ingest", h))
                           ELSE subInbox
            /\ UNCHANGED received
            /\ handler' = [handler EXCEPT ![h].pc = "awaitPublish"]
    /\ UNCHANGED <<procVars, now, ingestState, nextMsg, storeVars, redisUp,
                   obsVars, cmdVars, queryVars, retryVars, stalled,
                   lastUpgrade>>

\* part_000: the awaited publish settles; a rejection lands in the outer catch.
PublishReturn(h) ==
    /\ Running
    /\ handler[h].pc = "awaitPublish"
    /\ pubOp[h] \in {"ok", "rejected"}
    /\ handler' = [handler EXCEPT ![h].pc = "done"]
    /\ UNCHANGED <<procVars, now, ingestState, nextMsg, storeVars, redisVars,
                   obsVars, subInbox, received, cmdVars, queryVars, retryVars,
                   stalled, lastUpgrade>>

\* part_000: sub.on('message', (_ch, payload) => { if (ws.readyState ===
\* ws.OPEN) ws.send(payload); }): the callback of one subscriber runs for the
\* oldest message pushed to it, and looks at the connection as it is now.
SubMessage(o) ==
    /\ Running
    /\ subInbox[o] # <<>>
    /\ subInbox' = [subInbox EXCEPT ![o] = Tail(@)]
    /\ received' = IF readyState[o] = "OPEN"
                   THEN [received EXCEPT ![o] = Append(@, Head(subInbox[o]))]
                   ELSE received
    /\ UNCHANGED <<procVars, now, ingestVars, storeVars, redisVars, obsVars,
                   cmdVars, queryVars, retryVars, stalled, lastUpgrade>>

(* --------------------------- Redis backend ----------------------------- *)
\* redisPub's reconnect policy.  part_001 passes
\*   retryStrategy: (times) => Math.min(times * 200, 2000)
\* part_000 passes no options and gets the client's default, which has the
\* same ceiling and a smaller step.  The client reconnects after the
\* returned number of milliseconds and stops for good when the strategy
\* returns something that is not a number, modelled as a negative value.
RetryBase    == 200
RetryCeiling == 2000
DefaultRetryBase == 50
Min(a, b) == IF a < b THEN a ELSE b

RetryStrategy_giveup(b, times) ==
    IF times > 3 THEN -1 ELSE Min(times * RetryBase, RetryCeiling)
RetryStrategy(b, times) ==
    IF b = "part_001" THEN Min(times * RetryBase, RetryCeiling)
    ELSE Min(times * DefaultRetryBase, RetryCeiling)

\* redisPub loses its connection: the client asks the strategy for the
\* first delay.  The subscribers' connections are not touched.
RedisDown ==
    /\ Running
    /\ redisUp
    /\ redisUp' = FALSE
    /\ retryTimes' = 1
    /\ retryDelay' = RetryStrategy(build, 1)
    /\ UNCHANGED <<procVars, now, ingestVars, storeVars, offlineQueue,
                   channelLog, pubOp, obsVars, subInbox, received, cmdVars,
                   queryVars, stalled, lastUpgrade>>

\* A reconnect attempt fails because the backend is still unreachable: the
\* client asks the strategy again with the next attempt number.
RedisRetry ==
    /\ Running
    /\ ~redisUp
    /\ retryDelay >= 0
    /\ retryTimes < MaxRetries
    /\ retryTimes' = retryTimes + 1
    /\ retryDelay' = RetryStrategy(build, retryTimes + 1)
    /\ UNCHANGED <<procVars, now, ingestVars, storeVars, redisVars, obsVars,
                   subInbox, received, cmdVars, queryVars, stalled,
                   lastUpgrade>>

\* The retry strategy reconnects; the offline queue is sent in order.
RedisReconnect ==
    /\ Running
    /\ ~redisUp
    /\ retryDelay >= 0
    /\ redisUp' = TRUE
    /\ retryTimes' = 0
    /\ retryDelay' = 0
    /\ channelLog' = channelLog \o
          [i \in 1..Len(offlineQueue) |->
              [channel |-> offlineQueue[i].channel,
               payload |-> offlineQueue[i].payload]]
    /\ subInbox' = SubDeliverAll(subInbox, offlineQueue)
    /\ pubOp' = [h \in Handlers |->
          IF pubOp[h] = "queued" THEN "ok" ELSE pubOp[h]]
    /\ cmd' = [r \in Requests |->
          IF cmd[r].pub = "queued" THEN [cmd[r] EXCEPT !.pub = "ok"] ELSE cmd[r]]
    /\ offlineQueue' = <<>>
    /\ UNCHANGED <<procVars, now, ingestVars, storeVars, obsVars, received,
                   nextCmd, cmdColl, queryVars, stalled, lastUpgrade>>

\* part_000 leaves maxRetriesPerRequest at its default: after that many
\* reconnect attempts the queued commands are rejected.  part_001 sets it to
\* null, so its queue is never flushed with an error.
RedisGiveUp ==
    /\ Running
    /\ build = "part_000"
    /\ ~redisUp
    /\ offlineQueue # <<>>
    /\ pubOp' = [h \in Handlers |->
          IF pubOp[h] = "queued" THEN "rejected" ELSE pubOp[h]]
    /\ cmd' = [r \in Requests |->
          IF cmd[r].pub = "queued" THEN [cmd[r] EXCEPT !.pub = "rejected"]
          ELSE cmd[r]]
    /\ offlineQueue' = <<>>
    /\ UNCHANGED <<procVars, now, ingestVars, storeVars, redisUp, channelLog,
                   obsVars, subInbox, received, nextCmd, cmdColl, queryVars,
                   retryVars, stalled, lastUpgrade>>

(* ------------------------- observer connections ------------------------ *)
\* wssStream.on('connection'): register (part_001) or subscribe (part_000).
ObserverConnect(o) ==
    /\ Running
    /\ readyState[o] = "NONE"
    /\ readyState' = [readyState EXCEPT ![o] = "OPEN"]
    /\ IF build = "part_001"
       THEN streamClients' = streamClients \cup {o} /\ UNCHANGED subState
       ELSE subState' = [subState EXCEPT ![o] = "subscribing"]
            /\ UNCHANGED streamClients
    /\ UNCHANGED <<procVars, now, ingestVars, storeVars, redisVars, cleanups,
                   events, subInbox, received, cmdVars, queryVars, retryVars,
                   stalled, lastUpgrade>>

\* part_000: the server acknowledges sub.subscribe('telemetry'), or the
\* resubscription the client issues by itself once it has its connection
\* back.  An acknowledgement that arrives after disconnect() was called finds
\* the client closing.
SubSubscribed(o) ==
    /\ Running
    /\ subState[o] \in {"subscribing", "resubscribing", "disconnecting"}
    /\ subState' = [subState EXCEPT ![o] =
          IF @ = "disconnecting" THEN "disconnected" ELSE "subscribed"]
    /\ UNCHANGED <<procVars, now, ingestVars, storeVars, redisVars, readyState,
                   streamClients, cleanups, events, subInbox, received,
                   cmdVars, queryVars, retryVars, stalled, lastUpgrade>>

\* part_000: a subscriber loses its own connection.  What is published
\* meanwhile does not reach it; the client reconnects and resubscribes by
\* itself.
SubDown(o) ==
    /\ Running
    /\ subState[o] = "subscribed"
    /\ subState' = [subState EXCEPT ![o] = "resubscribing"]
    /\ UNCHANGED <<procVars, now, ingestVars, storeVars, redisVars, readyState,
                   streamClients, cleanups, events, subInbox, received,
                   cmdVars, queryVars, retryVars, stalled, lastUpgrade>>

\* What the platform does with a rejected promise that nothing handles
\* outside a route handler: Node from version 15 on ends the process, an
\* older Node only warns.
SubscribeRejection == {"exit", "warning"}

\* part_000: sub.subscribe('telemetry').then(() => {}) has no rejection
\* handler, and the promise may reject for as long as it is pending: the
\* server refuses the command, the client's retry limit is reached while it
\* has no connection, or disconnect() closes the client with the command
\* still waiting.
SubRejected(o, u) ==
    /\ Running
    /\ subState[o] \in {"subscribing", "disconnecting"}
    /\ subState' = [subState EXCEPT ![o] =
          IF @ = "disconnecting" THEN "disconnected" ELSE "rejected"]
    /\ proc' = IF u = "exit" THEN "exited" ELSE proc
    /\ UNCHANGED <<build, now, ingestVars, storeVars, redisVars, readyState,
                   streamClients, cleanups, events, subInbox, received,
                   cmdVars, queryVars, retryVars, stalled, lastUpgrade>>

\* The closing handshake has started; no event has been emitted yet.
ObserverClosing(o) ==
    /\ Running
    /\ readyState[o] = "OPEN"
    /\ readyState' = [readyState EXCEPT ![o] = "CLOSING"]
    /\ UNCHANGED <<procVars, now, ingestVars, storeVars, redisVars,
                   streamClients, subState, cleanups, events, subInbox,
                   received, cmdVars, queryVars, retryVars, stalled,
                   lastUpgrade>>

\* The peer of an open observer stops reading.  ws.send() does not wait for
\* the peer: it hands the frame to the socket, which buffers what it cannot
\* write, and returns.  Nothing in either build looks at bufferedAmount.
ObserverStall(o) ==
    /\ Running
    /\ readyState[o] = "OPEN"
    /\ stalled[o] = -1
    /\ stalled' = [stalled EXCEPT ![o] = Len(received[o])]
    /\ UNCHANGED <<procVars, now, ingestVars, storeVars, redisVars, obsVars,
                   subInbox, received, cmdVars, queryVars, retryVars,
                   lastUpgrade>>

\* The transport emits 'error' on an observer connection.  Neither build
\* registers a listener for it, so emit('error', err) throws, nothing catches
\* the exception and the process ends: the 'close' listener never runs, the
\* connection is still registered (part_001) and its subscriber was never
\* disconnected (part_000).
ObserverError(o) ==
    /\ Running
    /\ readyState[o] \in {"OPEN", "CLOSING"}
    /\ events[o] = <<>>
    /\ events' = [events EXCEPT ![o] = Append(@, "error")]
    /\ readyState' = [readyState EXCEPT ![o] = "CLOSING"]
    /\ proc' = "exited"
    /\ UNCHANGED <<build, now, ingestVars, storeVars, redisVars, streamClients,
                   subState, cleanups, subInbox, received, cmdVars, queryVars,
                   retryVars, stalled, lastUpgrade>>

\* The transport emits 'close'; the listener of the build runs.  part_000
\* disconnects the subscriber: it receives nothing new, and the callbacks
\* for what the server had already pushed to it still run (SubMessage) and
\* find the connection closed.
ObserverClose(o) ==
    /\ Running
    /\ readyState[o] \in {"OPEN", "CLOSING"}
    /\ events' = [events EXCEPT ![o] = Append(@, "close")]
    /\ readyState' = [readyState EXCEPT ![o] = "CLOSED"]
    /\ cleanups' = [cleanups EXCEPT ![o] = @ + 1]
    /\ IF build = "part_001"
       THEN streamClients' = streamClients \ {o} /\ UNCHANGED subState
       ELSE /\ subState' = [subState EXCEPT ![o] =
                  IF @ = "subscribing" THEN "disconnecting"
                  ELSE "disconnected"]
            /\ UNCHANGED streamClients
    /\ UNCHANGED <<procVars, now, ingestVars, storeVars, redisVars, subInbox, received,
                   cmdVars, queryVars, retryVars, stalled, lastUpgrade>>

(* ---------------------------- upgrade routing --------------------------- *)
\* A request URL is a sequence of pieces: the first is its longest leading
\* part that the router can recognise, the rest is what follows it.  A piece
\* that begins with "?" starts the query string.
IngestPath == "/ws/telemetry"
StreamPath == "/ws/stream"
QueryPieces == {"?vehicle=v1"}
Urls ==
    { <<IngestPath>>, <<IngestPath, "?vehicle=v1">>, <<IngestPath, "-debug">>,
      <<StreamPath>>, <<StreamPath, "?vehicle=v1">>, <<StreamPath, "s">>,
      <<"/api/state">>, <<"/ws">>, <<>> }

\* url.startsWith(prefix)
StartsWith(url, prefix) == Len(url) >= 1 /\ url[1] = prefix

\* What the WebSocketServer compares with its `path` option: the URL up to
\* the first "?".
RECURSIVE Pathname(_)
Pathname(url) ==
    IF url = <<>> \/ Head(url) \in QueryPieces THEN <<>>
    ELSE <<Head(url)>> \o Pathname(Tail(url))

\* Mutant: the servers are created without the `path` option.
ShouldHandle_any(path, url) == TRUE

\* WebSocketServer({ noServer: true, path }): handleUpgrade answers 400 and
\* ends the socket unless the request's pathname is exactly `path`.
ShouldHandle(path, url) == Pathname(url) = <<path>>

\* server.on('upgrade'): the branch taken and what handleUpgrade makes of it.
UpgradeResult(url) ==
    IF StartsWith(url, IngestPath)
    THEN IF ShouldHandle(IngestPath, url) THEN "ingest" ELSE "aborted"
    ELSE IF StartsWith(url, StreamPath)
    THEN IF ShouldHandle(StreamPath, url) THEN "stream" ELSE "aborted"
    ELSE "destroyed"

\* A connection object that does not stand for a live connection.
Free(c) == ingestState[c] \in {"NONE", "CLOSED"}

\* An upgrade request arrives.  The gateway puts no limit on the number of
\* ingest or observer connections; c and o are the connection objects the
\* request would get.
Upgrade(url, c, o) ==
    LET res == UpgradeResult(url) IN
    /\ Running
    /\ res = "ingest" => Free(c)
    /\ res = "stream" => readyState[o] = "NONE"
    /\ lastUpgrade' = [url |-> url, result |-> res]
    /\ ingestState' = IF res = "ingest"
                      THEN [ingestState EXCEPT ![c] = "OPEN"] ELSE ingestState
    /\ readyState' = IF res = "stream"
                     THEN [readyState EXCEPT ![o] = "OPEN"] ELSE readyState
    /\ streamClients' = IF res = "stream" /\ build = "part_001"
                        THEN streamClients \cup {o} ELSE streamClients
    /\ subState' = IF res = "stream" /\ build = "part_000"
                   THEN [subState EXCEPT ![o] = "subscribing"] ELSE subState
    /\ UNCHANGED <<procVars, now, nextMsg, handler, storeVars, redisVars,
                   cleanups, events, subInbox, received, cmdVars, queryVars,
                   retryVars, stalled>>

\* wssIngest.on('connection'): an agent has connected on the ingest path.
IngestConnect(c) ==
    /\ Running
    /\ Free(c)
    /\ ingestState' = [ingestState EXCEPT ![c] = "OPEN"]
    /\ UNCHANGED <<procVars, now, nextMsg, handler, storeVars, redisVars,
                   obsVars, subInbox, received, cmdVars, queryVars, retryVars,
                   stalled, lastUpgrade>>

\* The agent closes its ingest connection.
IngestClose(c) ==
    /\ Running
    /\ ingestState[c] = "OPEN"
    /\ ingestState' = [ingestState EXCEPT ![c] = "CLOSED"]
    /\ UNCHANGED <<procVars, now, nextMsg, handler, storeVars, redisVars,
                   obsVars, subInbox, received, cmdVars, queryVars, retryVars,
                   stalled, lastUpgrade>>

\* The transport emits 'error' on an ingest connection: the handler of
\* 'connection' registers 'message' only, so the emit throws and the
\* process ends.
IngestError(c) ==
    /\ Running
    /\ ingestState[c] = "OPEN"
    /\ ingestState' = [ingestState EXCEPT ![c] = "CLOSING"]
    /\ proc' = "exited"
    /\ UNCHANGED <<build, now, nextMsg, handler, storeVars, redisVars,
                   obsVars, subInbox, received, cmdVars, queryVars, retryVars,
                   stalled, lastUpgrade>>

(* ---------------------------- POST /api/command ------------------------ *)
CmdFields == {"vehicleId", "command", "params"}

Body(vehicleId, command) ==
    [k \in {"vehicleId", "command"} |->
        IF k = "vehicleId" THEN vehicleId ELSE command]

Bodies ==
    { Body(Str("v1"), Str("stop")),
      [k \in {"vehicleId", "command", "params", "note"} |->
          IF k = "vehicleId" THEN Str("v2")
          ELSE IF k = "command" THEN Str("stop") ELSE Str("now")],
      Body(Str("v1"), Str("")),
      Body(Str(""), Str("stop")),
      [k \in {"command"} |-> Str("stop")],
      [k \in {"vehicleId"} |-> Str("v1")],
      NoData,
      Body(Num(0), Str("stop")),
      Body(Str("v1"), Num(0)),
      Body(Null, Str("stop")),
      Body(Str("v1"), Bool(FALSE)),
      Body(Num(5), Str("stop")),
      Body(Arr(<<Str("v1"), Num(2)>>), Bool(TRUE)) }

\* JavaScript's !x for a destructured body field: undefined, null, "", 0 and
\* false are falsy; every other JSON value is truthy.
Falsy(body, k) ==
    \/ k \notin DOMAIN body
    \/ body[k].t = "null"
    \/ body[k].t = "string" /\ body[k].v = ""
    \/ body[k].t = "number" /\ body[k].v = 0
    \/ body[k].t = "boolean" /\ body[k].v = FALSE

\* Mutant: only the vehicleId is checked.
BadRequest_noCommand(body) == Falsy(body, "vehicleId")

\* if (!vehicleId || !command) return res.status(400)...
BadRequest(body) == Falsy(body, "vehicleId") \/ Falsy(body, "command")

\* String(v), as a template literal applies it.
RECURSIVE ToStr(_)
RECURSIVE Join(_)
ToStr(v) ==
    CASE v.t = "string"  -> v.v
      [] v.t = "number"  -> NumString(v.v)
      [] v.t = "boolean" -> IF v.v THEN "true" ELSE "false"
      [] v.t = "null"    -> "null"
      [] v.t = "array"   -> Join(v.v)
      [] OTHER           -> "[object Object]"
\* Array.prototype.join(","): null elements give the empty string.
Join(a) ==
    IF a = <<>> THEN ""
    ELSE LET first == IF a[1].t = "null" THEN "" ELSE ToStr(a[1]) IN
         IF Len(a) = 1 THEN first ELSE first \o "," \o Join(Tail(a))

\* `cmd:${vehicleId}`
CmdChannel(body) == "cmd:" \o ToStr(body["vehicleId"])

\* const { vehicleId, command, params } = req.body: a field the body lacks
\* is undefined.
Destructure(body) == [k \in CmdFields \cap DOMAIN body |-> body[k]]

\* { vehicleId, command, params, ts, status: 'sent' } as insertOne stores
\* it: the driver writes an undefined field as null.
CmdDoc(body, ts) ==
    [intent |-> [k \in CmdFields |->
                    IF k \in DOMAIN body THEN body[k] ELSE Null],
     ts |-> ts, status |-> "sent"]
\* JSON.stringify({ vehicleId, command, params, ts }): an undefined field
\* is left out.
CmdPayload(body, ts) ==
    [kind |-> "command", value |-> Destructure(body), ts |-> ts]

\* The promise of an async route handler rejects and nothing in the
\* repository catches it.  What follows is decided by the platform, which
\* the repository does not fix: Node from version 15 on ends the process
\* with exit code 1; an older Node only warns, and the request is never
\* answered; Express 5 hands the rejection to its error handler, which
\* answers 500.
UnhandledRejection == {"exit", "unanswered", "500"}

\* The request's own turn: a bad body is answered 400; otherwise the handler
\* takes ts, calls cmdColl.insertOne(...) and awaits it.
CmdRequest(b) ==
    /\ Running
    /\ nextCmd < MaxCmds
    /\ nextCmd' = nextCmd + 1
    /\ cmd' = [cmd EXCEPT ![nextCmd + 1] =
          IF BadRequest(b)
          THEN [body |-> b, ts |-> 0, pc |-> "done", resp |-> "400",
                ins |-> "none", pub |-> "none"]
          ELSE [body |-> b, ts |-> now, pc |-> "awaitInsert", resp |-> "none",
                ins |-> "pending", pub |-> "none"]]
    /\ UNCHANGED <<procVars, now, ingestVars, storeVars, redisVars, obsVars,
                   subInbox, received, cmdColl, queryVars, retryVars, stalled,
                   lastUpgrade>>

\* The store settles cmdColl.insertOne(...): the document is written, or
\* the insert fails.  The handler has not continued yet.
CmdInsertDone(r, ok) ==
    /\ Running
    /\ cmd[r].ins = "pending"
    /\ cmdColl' = IF ok THEN Append(cmdColl, CmdDoc(cmd[r].body, cmd[r].ts))
                  ELSE cmdColl
    /\ cmd' = [cmd EXCEPT ![r].ins = IF ok THEN "ok" ELSE "failed"]
    /\ UNCHANGED <<procVars, now, ingestVars, storeVars, redisVars, obsVars,
                   subInbox, received, nextCmd, queryVars, retryVars, stalled,
                   lastUpgrade>>

\* The handler continues after `await cmdColl.insertOne(...)`.
\* part_001 logs a failed insert and goes on; its publish is not awaited and
\* it answers in the same turn.  part_000 has no try: a failed insert
\* rejects the handler's promise, which nothing catches; otherwise it calls
\* publish and awaits it.
CmdInsertReturn(r, u) ==
    /\ Running
    /\ cmd[r].pc = "awaitInsert"
    /\ cmd[r].ins \in {"ok", "failed"}
    /\ LET ch      == CmdChannel(cmd[r].body)
           payload == CmdPayload(cmd[r].body, cmd[r].ts)
           pub     == IF redisUp THEN "ok" ELSE "queued"
       IN  IF build = "part_000" /\ cmd[r].ins = "failed"
           THEN /\ cmd' = [cmd EXCEPT ![r] =
                      [@ EXCEPT !.pc = "rejected",
                                !.resp = IF u = "500" THEN "500" ELSE "none"]]
                /\ proc' = IF u = "exit" THEN "exited" ELSE proc
                /\ UNCHANGED <<channelLog, offlineQueue>>
           ELSE /\ channelLog' = PublishLog(channelLog, ch, payload)
                /\ offlineQueue' = PublishQueue(offlineQueue, ch, payload, "cmd", r)
                /\ cmd' = [cmd EXCEPT ![r] =
                      IF build = "part_001"
                      THEN [@ EXCEPT !.pc = "done", !.resp = "200", !.pub = pub]
                      ELSE [@ EXCEPT !.pc = "awaitPublish", !.pub = pub]]
                /\ UNCHANGED proc
    /\ UNCHANGED <<build, now, ingestVars, storeVars, redisUp, pubOp,
                   obsVars, subInbox, received, nextCmd, cmdColl, queryVars,
                   retryVars, stalled, lastUpgrade>>

\* part_000: `await redisPub.publish(...)` settles.  Resolved: the handler
\* answers { ok: true }.  Rejected: the handler's promise rejects, and
\* nothing catches it.
CmdPublishReturn(r, u) ==
    /\ Running
    /\ cmd[r].pc = "awaitPublish"
    /\ cmd[r].pub \in {"ok", "rejected"}
    /\ IF cmd[r].pub = "ok"
       THEN /\ cmd' = [cmd EXCEPT ![r] =
                  [@ EXCEPT !.pc = "done", !.resp = "200"]]
            /\ UNCHANGED proc
       ELSE /\ cmd' = [cmd EXCEPT ![r] =
                  [@ EXCEPT !.pc = "rejected",
                            !.resp = IF u = "500" THEN "500" ELSE "none"]]
            /\ proc' = IF u = "exit" THEN "exited" ELSE proc
    /\ UNCHANGED <<build, now, ingestVars, storeVars, redisVars, obsVars,
                   subInbox, received, nextCmd, cmdColl, queryVars, retryVars,
                   stalled, lastUpgrade>>

(* ------------------------ GET /api/state/:vehicleId -------------------- *)
QueryIds == {"v1", "v2", "v9"}
\* e.message of a rejected findOne; "" stands for an error without one.
FailureMessages == {"", "connection closed"}

\* res.json(doc): the document as JSON.  The ObjectId that the raw insert
\* left in `last` is written as its hex string.
ResJson(doc) ==
    [doc EXCEPT !.last = [k \in DOMAIN doc.last |-> ToJSON(doc.last[k])]]

\* res.json(doc || {}): the body is the document, or the empty object.
StateResponse(coll, vid) ==
    IF Matching(coll, vid) = {}
    THEN [vehicleId |-> vid, status |-> 200, body |-> EmptyObject]
    ELSE [vehicleId |-> vid, status |-> 200, body |-> ResJson(DocOf(coll, vid))]

\* findOne rejects.  part_001 answers 500 with
\* { error: e?.message || 'db error' }.  part_000 has no try: the handler
\* writes nothing (status 0), and its promise rejects.
StateFailure(vid, message) ==
    IF build = "part_001"
    THEN [vehicleId |-> vid, status |-> 500,
          body |-> [error |-> Str(IF message = "" THEN "db error" ELSE message)]]
    ELSE [vehicleId |-> vid, status |-> 0, body |-> NoData]

\* The request arrives: the handler calls findOne and awaits it.
QueryRequest(vid) ==
    /\ Running
    /\ query.pc = "idle"
    /\ query' = [pc |-> "awaitFind", vehicleId |-> vid, result |-> NoQuery]
    /\ UNCHANGED <<procVars, now, ingestVars, storeVars, redisVars, obsVars,
                   subInbox, received, cmdVars, lastQuery, retryVars, stalled,
                   lastUpgrade>>

\* The store reads the projection as it is now, or the read fails.
QueryFind(ok, message) ==
    /\ Running
    /\ query.pc = "awaitFind"
    /\ query' = [query EXCEPT
          !.pc = "settled",
          !.result = IF ok THEN StateResponse(latestColl, query.vehicleId)
                     ELSE StateFailure(query.vehicleId, message)]
    /\ UNCHANGED <<procVars, now, ingestVars, storeVars, redisVars, obsVars,
                   subInbox, received, cmdVars, lastQuery, retryVars, stalled,
                   lastUpgrade>>

\* What Express 5's error handler writes for a rejected handler: status 500
\* and an error page, no JSON document.
ErrorPage(vid) == [vehicleId |-> vid, status |-> 500, body |-> NoData]

\* The handler resumes after the await.  It writes what findOne gave it, or
\* what its catch makes of the failure (part_001).  In part_000 the rejected
\* await is not caught: the handler's promise rejects unhandled.
QueryRespond(u) ==
    /\ Running
    /\ query.pc = "settled"
    /\ query' = NoRequest
    /\ IF query.result.status # 0
       THEN lastQuery' = query.result /\ UNCHANGED proc
       ELSE /\ lastQuery' = IF u = "exit" THEN lastQuery
                            ELSE IF u = "500" THEN ErrorPage(query.vehicleId)
                            ELSE query.result
            /\ proc' = IF u = "exit" THEN "exited" ELSE proc
    /\ UNCHANGED <<build, now, ingestVars, storeVars, redisVars, obsVars,
                   subInbox, received, cmdVars, retryVars, stalled,
                   lastUpgrade>>

(* ---------------------------- specification ---------------------------- *)
Next ==
    \/ \E ok \in BOOLEAN : Boot(ok)
    \/ Tick
    \/ \E c \in Agents : IngestConnect(c)
    \/ \E c \in Agents, m \in Msgs : Receive(c, m)
    \/ \E c \in Agents : IngestClose(c)
    \/ \E c \in Agents : IngestError(c)
    \/ \E h \in Handlers, ok \in BOOLEAN : RawInsertDone(h, ok)
    \/ \E h \in Handlers : StoreFind(h)
    \/ \E h \in Handlers : StoreApply(h)
    \/ \E h \in Handlers : StoreRetryAsUpdate(h)
    \/ \E h \in Handlers : StoreFail(h)
    \/ \E h \in Handlers : UpsertReturn(h)
    \/ \E h \in Handlers : PublishReturn(h)
    \/ \E o \in Observers : SubMessage(o)
    \/ RedisDown
    \/ RedisRetry
    \/ RedisReconnect
    \/ RedisGiveUp
    \/ \E o \in Observers : ObserverConnect(o)
    \/ \E o \in Observers : SubSubscribed(o)
    \/ \E o \in Observers : SubDown(o)
    \/ \E o \in Observers, u \in SubscribeRejection : SubRejected(o, u)
    \/ \E o \in Observers : ObserverClosing(o)
    \/ \E o \in Observers : ObserverStall(o)
    \/ \E o \in Observers : ObserverError(o)
    \/ \E o \in Observers : ObserverClose(o)
    \/ \E u \in Urls, c \in Agents, o \in Observers : Upgrade(u, c, o)
    \/ \E b \in Bodies : CmdRequest(b)
    \/ \E r \in Requests, ok \in BOOLEAN : CmdInsertDone(r, ok)
    \/ \E r \in Requests, u \in UnhandledRejection : CmdInsertReturn(r, u)
    \/ \E r \in Requests, u \in UnhandledRejection : CmdPublishReturn(r, u)
    \/ \E v \in QueryIds : QueryRequest(v)
    \/ \E ok \in BOOLEAN, e \in FailureMessages : QueryFind(ok, e)
    \/ \E u \in UnhandledRejection : QueryRespond(u)

Spec == Init /\ [][Next]_vars

\* The slices below follow one ingest connection where the number of
\* connections plays no part.
Lead == {"a1"}

\* In the slices every agent reports for its own vehicle on its own
\* connection, as the simulator does: a1 for v1, a2 for v2.  Any connection
\* may carry malformed frames.
ReportsOf(c) == IF c = "a1" THEN {Text(R1), Text(R2)} ELSE {Text(R4x)}
FramesOf(c) == ReportsOf(c) \cup BadMsgs

\* The ingest connection and both of its writes.
NextIngest ==
    \/ \E ok \in BOOLEAN : Boot(ok)
    \/ \E c \in Lead : IngestConnect(c)
    \/ \E c \in Lead : \E m \in FramesOf(c) : Receive(c, m)
    \/ \E h \in Handlers, ok \in BOOLEAN : RawInsertDone(h, ok)
    \/ \E h \in Handlers : StoreFind(h)
    \/ \E h \in Handlers : StoreApply(h)
    \/ \E h \in Handlers : StoreRetryAsUpdate(h)
    \/ \E h \in Handlers : StoreFail(h)
    \/ \E h \in Handlers : UpsertReturn(h)
    \/ \E h \in Handlers : PublishReturn(h)
    \/ \E c \in Lead : IngestClose(c)

SpecIngest == Init /\ [][NextIngest]_vars

\* The projection store under the pipeline's upserts, with the clock that
\* stamps them; reports arrive on two connections.
NextStore ==
    \/ \E ok \in BOOLEAN : Boot(ok)
    \/ Tick
    \/ \E c \in Agents : IngestConnect(c)
    \/ \E c \in Agents : \E m \in FramesOf(c) : Receive(c, m)
    \/ \E h \in Handlers : StoreFind(h)
    \/ \E h \in Handlers : StoreApply(h)
    \/ \E h \in Handlers : StoreRetryAsUpdate(h)
    \/ \E h \in Handlers : StoreFail(h)
    \/ \E h \in Handlers : UpsertReturn(h)
    \/ \E h \in Handlers : PublishReturn(h)

SpecStore == Init /\ [][NextStore]_vars

\* The state query against the store the pipeline writes.
NextQuery ==
    \/ \E ok \in BOOLEAN : Boot(ok)
    \/ \E c \in Lead : IngestConnect(c)
    \/ \E c \in Lead : \E m \in ReportsOf(c) : Receive(c, m)
    \/ \E h \in Handlers : StoreFind(h)
    \/ \E h \in Handlers : StoreApply(h)
    \/ \E h \in Handlers : StoreRetryAsUpdate(h)
    \/ \E h \in Handlers : StoreFail(h)
    \/ \E h \in Handlers : UpsertReturn(h)
    \/ \E h \in Handlers : PublishReturn(h)
    \/ \E v \in QueryIds : QueryRequest(v)
    \/ \E ok \in BOOLEAN, e \in FailureMessages : QueryFind(ok, e)
    \/ \E u \in UnhandledRejection : QueryRespond(u)

SpecQuery == Init /\ [][NextQuery]_vars

\* part_001 alone: the pipeline with the in-process registry.
NextLocal ==
    \/ \E ok \in BOOLEAN : Boot(ok)
    \/ \E c \in Lead : IngestConnect(c)
    \/ \E c \in Lead : \E m \in FramesOf(c) : Receive(c, m)
    \/ \E h \in Handlers : StoreFind(h)
    \/ \E h \in Handlers : StoreApply(h)
    \/ \E h \in Handlers : StoreRetryAsUpdate(h)
    \/ \E h \in Handlers : StoreFail(h)
    \/ \E h \in Handlers : UpsertReturn(h)
    \/ \E o \in Observers : ObserverConnect(o)
    \/ \E o \in Observers : ObserverClosing(o)
    \/ \E o \in Observers : ObserverClose(o)

InitLocal == Init /\ build = "part_001"
SpecLocal == InitLocal /\ [][NextLocal]_vars

\* The ingest pipeline with observers and the Redis backend.
NextFanout ==
    \/ \E ok \in BOOLEAN : Boot(ok)
    \/ \E c \in Lead : IngestConnect(c)
    \/ \E c \in Lead : \E m \in FramesOf(c) : Receive(c, m)
    \/ \E h \in Handlers : StoreFind(h)
    \/ \E h \in Handlers : StoreApply(h)
    \/ \E h \in Handlers : StoreRetryAsUpdate(h)
    \/ \E h \in Handlers : StoreFail(h)
    \/ \E h \in Handlers : UpsertReturn(h)
    \/ \E h \in Handlers : PublishReturn(h)
    \/ \E o \in Observers : SubMessage(o)
    \/ RedisDown
    \/ RedisReconnect
    \/ RedisGiveUp
    \/ \E o \in Observers : ObserverConnect(o)
    \/ \E o \in Observers : SubSubscribed(o)
    \/ \E o \in Observers : SubDown(o)
    \/ \E o \in Observers, u \in SubscribeRejection : SubRejected(o, u)
    \/ \E o \in Observers : ObserverClosing(o)
    \/ \E o \in Observers : ObserverClose(o)

SpecFanout == Init /\ [][NextFanout]_vars

\* Observer connections alone.
NextObservers ==
    \/ \E ok \in BOOLEAN : Boot(ok)
    \/ RedisDown
    \/ RedisReconnect
    \/ \E o \in Observers : ObserverConnect(o)
    \/ \E o \in Observers : SubSubscribed(o)
    \/ \E o \in Observers : SubDown(o)
    \/ \E o \in Observers, u \in SubscribeRejection : SubRejected(o, u)
    \/ \E o \in Observers : ObserverClosing(o)
    \/ \E o \in Observers : ObserverError(o)
    \/ \E o \in Observers : ObserverClose(o)

SpecObservers == Init /\ [][NextObservers]_vars

\* The command facade.
NextCommand ==
    \/ \E ok \in BOOLEAN : Boot(ok)
    \/ RedisDown
    \/ RedisReconnect
    \/ RedisGiveUp
    \/ \E b \in Bodies : CmdRequest(b)
    \/ \E r \in Requests, ok \in BOOLEAN : CmdInsertDone(r, ok)
    \/ \E r \in Requests, u \in UnhandledRejection : CmdInsertReturn(r, u)
    \/ \E r \in Requests, u \in UnhandledRejection : CmdPublishReturn(r, u)

SpecCommand == Init /\ [][NextCommand]_vars

\* The main gateway's publisher through an outage, attempt by attempt.
NextBackoff ==
    \/ \E ok \in BOOLEAN : Boot(ok)
    \/ \E c \in Lead : IngestConnect(c)
    \/ \E c \in Lead : \E m \in ReportsOf(c) : Receive(c, m)
    \/ \E h \in Handlers : StoreFind(h)
    \/ \E h \in Handlers : StoreApply(h)
    \/ \E h \in Handlers : StoreRetryAsUpdate(h)
    \/ \E h \in Handlers : StoreFail(h)
    \/ \E h \in Handlers : UpsertReturn(h)
    \/ RedisDown
    \/ RedisRetry
    \/ RedisReconnect

SpecBackoff == InitLocal /\ [][NextBackoff]_vars

\* The main gateway's pipeline with observers that may stop reading.
NextStall ==
    \/ \E ok \in BOOLEAN : Boot(ok)
    \/ \E c \in Lead : IngestConnect(c)
    \/ \E c \in Lead : \E m \in ReportsOf(c) : Receive(c, m)
    \/ \E h \in Handlers : StoreFind(h)
    \/ \E h \in Handlers : StoreApply(h)
    \/ \E h \in Handlers : StoreRetryAsUpdate(h)
    \/ \E h \in Handlers : StoreFail(h)
    \/ \E h \in Handlers : UpsertReturn(h)
    \/ \E o \in Observers : ObserverConnect(o)
    \/ \E o \in Observers : ObserverStall(o)
    \/ \E o \in Observers : ObserverClose(o)

SpecStall == InitLocal /\ [][NextStall]_vars

\* The main gateway's registry under connect, close and error events that
\* interleave with the handlers' fan-out.
NextRegistry ==
    \/ \E ok \in BOOLEAN : Boot(ok)
    \/ \E c \in Lead : IngestConnect(c)
    \/ \E c \in Lead : \E m \in ReportsOf(c) : Receive(c, m)
    \/ \E h \in Handlers : StoreFind(h)
    \/ \E h \in Handlers : StoreApply(h)
    \/ \E h \in Handlers : StoreRetryAsUpdate(h)
    \/ \E h \in Handlers : StoreFail(h)
    \/ \E h \in Handlers : UpsertReturn(h)
    \/ \E o \in Observers : ObserverConnect(o)
    \/ \E o \in Observers : ObserverClosing(o)
    \/ \E o \in Observers : ObserverError(o)
    \/ \E o \in Observers : ObserverClose(o)

SpecRegistry == InitLocal /\ [][NextRegistry]_vars

\* Upgrade requests and the connections they create.
NextUpgrade ==
    \/ \E ok \in BOOLEAN : Boot(ok)
    \/ \E u \in Urls, c \in Agents, o \in Observers : Upgrade(u, c, o)
    \/ \E o \in Observers : ObserverClosing(o)
    \/ \E o \in Observers : SubSubscribed(o)
    \/ \E o \in Observers : SubDown(o)
    \/ \E o \in Observers, u \in SubscribeRejection : SubRejected(o, u)
    \/ \E o \in Observers : ObserverClose(o)
    \/ \E c \in Agents : IngestClose(c)
    \/ \E c \in Agents : IngestError(c)

SpecUpgrade == Init /\ [][NextUpgrade]_vars

\* Valid reports and their two writes, on both entry points.
NextRaw ==
    \/ \E ok \in BOOLEAN : Boot(ok)
    \/ \E c \in Lead : IngestConnect(c)
    \/ \E c \in Lead : \E m \in ReportsOf(c) : Receive(c, m)
    \/ \E h \in Handlers, ok \in BOOLEAN : RawInsertDone(h, ok)
    \/ \E h \in Handlers : StoreFind(h)
    \/ \E h \in Handlers : StoreApply(h)
    \/ \E h \in Handlers : StoreRetryAsUpdate(h)
    \/ \E h \in Handlers : StoreFail(h)
    \/ \E h \in Handlers : UpsertReturn(h)
    \/ \E h \in Handlers : PublishReturn(h)

SpecRaw == Init /\ [][NextRaw]_vars
(* ======================================================================= *)
(* Properties                                                              *)
(* ======================================================================= *)
Range(f) == {f[i] : i \in DOMAIN f}

\* The Report of handler h: what Telemetry.parse returned, before the raw
\* insert put its _id into the object.
Report(h) == WithoutKey(handler[h].data, "_id")

\* C1. A frame that is unparsable or fails the schema is dropped without
\* side effect: the step that receives it starts no raw insert and no
\* upsert, changes neither collection, publishes and queues nothing, sends
\* nothing to an observer and leaves the ingest connection open; and the
\* dropped frame never acquires an operation afterwards.
C1_MalformedDropped ==
    /\ [][\A c \in Agents, m \in BadMsgs : Receive(c, m) =>
            /\ handler'[nextMsg'].pc = "dropped"
            /\ UNCHANGED <<rawOp, rawColl, upOp, latestColl, appliedOrder,
                           channelLog, offlineQueue, pubOp, subInbox, received>>
            /\ ingestState'[c] = "OPEN"
            /\ proc' = "running"]_vars
    /\ [](\A h \in Handlers : handler[h].pc = "dropped" =>
            /\ rawOp[h] = "none" /\ upOp[h] = "none" /\ pubOp[h] = "none"
            /\ h \notin Range(appliedOrder))

\* A malformed frame was dropped and a later frame went through the whole
\* pipeline on the same, still open, connection.
C1_Witness ==
    \E h1, h2 \in Handlers :
        /\ h1 < h2
        /\ handler[h1].pc = "dropped"
        /\ handler[h2].pc = "done"
        /\ handler[h1].conn = handler[h2].conn
        /\ upOp[h2] = "applied"
        /\ rawOp[h2] = "ok"
        /\ ingestState[handler[h1].conn] = "OPEN"

\* C5. The projection holds at most one document per vehicleId in every
\* reachable state, also while upserts for the same or for different
\* vehicles overlap; and every applied upsert leaves the key's document with
\* `last` equal to the whole object the handler passed, without adding a
\* second document.
C5_OneRecordPerAgent ==
    /\ [](\A d1, d2 \in latestColl : d1.vehicleId = d2.vehicleId => d1 = d2)
    /\ [][\A h \in Handlers : StoreApply(h) =>
            LET vid == VehicleOf(handler[h].data) IN
            /\ Cardinality(Matching(latestColl', vid)) = 1
            /\ \A d \in Matching(latestColl', vid) : d.last = handler[h].data
            /\ \A d \in latestColl : d.vehicleId # vid => d \in latestColl']_vars

\* Two upserts of different reports of one vehicle overlapped: both found no
\* document, one has inserted and the other has yet to write.
C5_Witness ==
    \E h1, h2 \in Handlers :
        /\ h1 # h2
        /\ upOp[h1] = "applied"
        /\ upOp[h2] = "unmatched"
        /\ VehicleOf(handler[h1].data) = VehicleOf(handler[h2].data)
        /\ Report(h1) # Report(h2)
        /\ Matching(latestColl, VehicleOf(handler[h1].data)) # {}

\* C6. Applying the upsert of a Report equal to the one the record already
\* holds leaves the record holding that Report and the projection content
\* as it was.
C6_SameContent ==
    [][\A h \in Handlers :
          (/\ StoreApply(h)
           /\ \E d \in latestColl : WithoutKey(d.last, "_id") = Report(h))
          => /\ latestColl' = latestColl
             /\ \A d \in Matching(latestColl', VehicleOf(handler[h].data)) :
                   d.last = Report(h)]_vars

\* C2. When the handler of a valid report returns after its awaited upsert,
\* every observer connection that is open has been sent a payload that
\* deserializes to the Report.
C2_OpenObserversReceive ==
    [][\A h \in Handlers :
          (handler[h].pc = "awaitUpsert" /\ handler'[h].pc = "done")
          => \A o \in Observers : readyState[o] = "OPEN" =>
                \E i \in DOMAIN received'[o] :
                    JSON_parse(received'[o][i]) = Report(h)]_vars

\* C3. When the upsert of a valid report fails, the continuation of the
\* handler still publishes the report on `telemetry` (or hands it to the
\* publisher's queue), sends it to every open observer and leaves the
\* ingest connection open.
C3_FailedUpsertStillFansOut ==
    [][\A h \in Handlers :
          (/\ handler[h].pc = "awaitUpsert"
           /\ upOp[h] = "failed"
           /\ handler'[h].pc # "awaitUpsert")
          => LET payload == JSON_stringify(handler[h].data) IN
             /\ \/ channelLog' = Append(channelLog,
                       [channel |-> "telemetry", payload |-> payload])
                \/ offlineQueue' = Append(offlineQueue,
                       Item("telemetry", payload, "ingest", h))
             /\ \A o \in Observers : readyState[o] = "OPEN" =>
                   received'[o] = Append(received[o], payload)
             /\ ingestState'[handler[h].conn] = ingestState[handler[h].conn]]_vars

\* The document of handler h has been sent to an observer.
Delivered(h) ==
    /\ handler[h].pc = "done"
    /\ \E o \in Observers :
          JSON_stringify(handler[h].data) \in Range(received[o])

IndexOf(h) == CHOOSE i \in DOMAIN appliedOrder : appliedOrder[i] = h

\* A state query for the vehicle of h, read now, returns the document of h
\* or a document of that vehicle whose upsert the store applied after the
\* one of h.
QueryAtLeast(h) ==
    LET vid  == VehicleOf(handler[h].data)
        resp == StateResponse(latestColl, vid)
    IN  /\ resp.status = 200
        /\ resp.body # EmptyObject
        /\ \E j \in DOMAIN appliedOrder :
              /\ j >= IndexOf(h)
              /\ VehicleOf(handler[appliedOrder[j]].data) = vid
              /\ Text(resp.body.last) =
                    JSON_stringify(handler[appliedOrder[j]].data)

\* C4 as stated. Every report already delivered to an observer has had its
\* upsert applied, and a state query returns it or a later applied report.
C4_DeliveredIsProjected ==
    \A h \in Handlers : Delivered(h) => upOp[h] = "applied" /\ QueryAtLeast(h)

\* C4 amended. A report is delivered to an observer only after its upsert
\* has settled (applied or failed); when it was applied, a state query
\* returns what the handler stored for it or for a report whose upsert was
\* applied later.
C4_DeliveredAfterSettled ==
    \A h \in Handlers : Delivered(h) =>
        /\ upOp[h] \in {"applied", "failed"}
        /\ upOp[h] = "applied" => QueryAtLeast(h)

\* A delivered report has been overwritten in the projection by a later
\* report of the same vehicle.
C4_Witness ==
    \E h \in Handlers :
        /\ Delivered(h)
        /\ upOp[h] = "applied"
        /\ Text(StateResponse(latestColl, VehicleOf(handler[h].data)).body.last)
              # JSON_stringify(handler[h].data)

\* C7. The store read of a state query for a vehicle without a record gives
\* the answer 200 with the empty object, whether the read succeeds or fails.
C7_UnknownIsEmpty ==
    [][\A ok \in BOOLEAN, e \in FailureMessages :
          (QueryFind(ok, e) /\ Matching(latestColl, query.vehicleId) = {})
          => query'.result = [vehicleId |-> query.vehicleId, status |-> 200,
                              body |-> EmptyObject]]_vars

\* The claim's own reading of a missing or empty field.
MissingOrEmpty(body, k) ==
    \/ k \notin DOMAIN body
    \/ body[k].t = "null"
    \/ body[k].t = "string" /\ body[k].v = ""

\* C8. A command request whose vehicleId or command is missing or empty is
\* answered 400 in the step that receives it, which writes nothing to the
\* command log and publishes or queues nothing; and no document of the log
\* and no message on a cmd: channel ever carries such an intent.
C8_BadCommandRejected ==
    /\ [][\A b \in Bodies :
            (CmdRequest(b) /\ (MissingOrEmpty(b, "vehicleId")
                               \/ MissingOrEmpty(b, "command")))
            => /\ cmd'[nextCmd'].resp = "400"
               /\ cmd'[nextCmd'].pc = "done"
               /\ UNCHANGED <<cmdColl, channelLog, offlineQueue>>]_vars
    /\ [](/\ \A i \in DOMAIN cmdColl :
               /\ ~MissingOrEmpty(cmdColl[i].intent, "vehicleId")
               /\ ~MissingOrEmpty(cmdColl[i].intent, "command")
          /\ \A i \in DOMAIN channelLog :
               channelLog[i].payload.kind = "command" =>
                  /\ ~MissingOrEmpty(channelLog[i].payload.value, "vehicleId")
                  /\ ~MissingOrEmpty(channelLog[i].payload.value, "command")
          /\ \A i \in DOMAIN offlineQueue :
               offlineQueue[i].src = "cmd" =>
                  /\ ~MissingOrEmpty(offlineQueue[i].payload.value, "vehicleId")
                  /\ ~MissingOrEmpty(offlineQueue[i].payload.value, "command"))

\* A request with an empty command was answered 400 while another request
\* was accepted and logged.
C8_Witness ==
    \E r1, r2 \in Requests :
        /\ cmd[r1].resp = "400"
        /\ "vehicleId" \in DOMAIN cmd[r1].body
        /\ "command" \in DOMAIN cmd[r1].body
        /\ cmd[r1].body["command"].t = "string"
        /\ cmd[r1].body["command"].v = ""
        /\ cmd[r2].resp = "200"
        /\ Len(cmdColl) = 1

\* C9. Every success response to a command request implies that its intent
\* is in the command log with status 'sent'.
C9_SuccessImpliesLogged ==
    \A r \in Requests : cmd[r].resp = "200" =>
        \E i \in DOMAIN cmdColl :
            /\ cmdColl[i].intent = CmdDoc(cmd[r].body, cmd[r].ts).intent
            /\ cmdColl[i].ts = cmd[r].ts
            /\ cmdColl[i].status = "sent"

\* C10. Once an observer connection has emitted 'close' or 'error', its
\* cleanup has run exactly once: it is in no registry and its subscriber is
\* released.
C10_CleanupOnceOnCloseOrError ==
    \A o \in Observers : events[o] # <<>> =>
        /\ cleanups[o] = 1
        /\ o \notin streamClients
        /\ subState[o] \in {"none", "disconnecting", "disconnected"}

(* ------------------------------- C11 ----------------------------------- *)
\* C11: while the main gateway's publisher is disconnected it keeps
\* retrying: the delay before every attempt is at least the base and at
\* most the ceiling and never shrinks from one attempt to the next, the
\* strategy never tells the client to stop, and a report whose handler
\* returns while the connection is up again is published on "telemetry".
C11_RetriesForeverAndResumes ==
    [][ /\ ~redisUp' => retryDelay' \in RetryBase..RetryCeiling
        /\ RedisRetry => retryDelay' >= retryDelay
        /\ \A h \in Handlers :
              UpsertReturn(h) /\ redisUp =>
                 channelLog' = Append(channelLog,
                     [channel |-> "telemetry",
                      payload |-> JSON_stringify(handler[h].data)])
      ]_vars

\* The delay has been at its ceiling for more than one attempt, the client
\* is still retrying, and reports kept arriving meanwhile.
C11_Witness ==
    /\ ~redisUp
    /\ retryTimes = MaxRetries
    /\ retryDelay = RetryCeiling
    /\ \E h \in Handlers : handler[h].pc = "done"

(* ------------------------------- C12 ----------------------------------- *)
\* C12: a message whose publish was issued while the backend was down is
\* never delivered on its channel later: no step adds to a channel a
\* message that was waiting from the outage, the reconnect included.
C12_OutagePublishDropped ==
    [][ \A i \in DOMAIN offlineQueue :
          \A j \in (Len(channelLog) + 1)..Len(channelLog') :
             channelLog'[j] # [channel |-> offlineQueue[i].channel,
                               payload |-> offlineQueue[i].payload]
      ]_vars

(* ------------------------------- C13 ----------------------------------- *)
\* C13: with an observer stalled, the handler of every report whose upsert
\* has settled can still return, and when it returns it finishes and every
\* open observer, the stalled one's neighbours included, is sent the report.
C13_StalledObserverDoesNotStall ==
    [][ \A h \in Handlers :
          /\ (Running /\ handler[h].pc = "awaitUpsert"
                      /\ upOp[h] \in {"applied", "failed"})
                => ENABLED UpsertReturn(h)
          /\ UpsertReturn(h) =>
                /\ handler'[h].pc = "done"
                /\ \A o \in Observers :
                      readyState[o] = "OPEN" =>
                         received'[o] = Append(received[o],
                                               JSON_stringify(handler[h].data))
      ]_vars

\* One observer stalled before any report was sent to it; every report of
\* the run was handled after that and reached the other observer.
C13_Witness ==
    /\ stalled["o1"] = 0
    /\ readyState["o1"] = "OPEN"
    /\ readyState["o2"] = "OPEN"
    /\ stalled["o2"] = -1
    /\ \A h \in Handlers : handler[h].pc = "done"
    /\ Len(received["o1"]) = MaxMsgs
    /\ Len(received["o2"]) = MaxMsgs

(* ------------------------------- C14 ----------------------------------- *)
Occurrences(seq, x) == {i \in DOMAIN seq : seq[i] = x}
PosIn(seq, x) == CHOOSE i \in DOMAIN seq : seq[i] = x

\* C14: two reports of one vehicle whose upserts were both applied reach an
\* observer in the order in which the store applied them.
C14_FanoutOrderIsApplyOrder ==
    \A o \in Observers : \A h1, h2 \in Handlers :
        LET p1 == JSON_stringify(handler[h1].data)
            p2 == JSON_stringify(handler[h2].data)
        IN  ( /\ handler[h1].pc = "done" /\ handler[h2].pc = "done"
              /\ upOp[h1] = "applied" /\ upOp[h2] = "applied"
              /\ VehicleOf(handler[h1].data) = VehicleOf(handler[h2].data)
              /\ p1 # p2
              /\ Cardinality(Occurrences(received[o], p1)) = 1
              /\ Cardinality(Occurrences(received[o], p2)) = 1
              /\ IndexOf(h1) < IndexOf(h2) )
            => PosIn(received[o], p1) < PosIn(received[o], p2)

(* ------------------------------- C15 ----------------------------------- *)
\* C15: the raw-log insert is off the pipeline's path.  Whatever its state
\* (pending, done, failed), a handler whose upsert has settled can return,
\* and when the upsert was applied the report is published; the completion
\* or failure of the insert changes nothing but the raw log and leaves the
\* process running; and the next frame can be received as long as the
\* connection is open.
C15_RawAppendNotAwaited ==
    [][ /\ \A h \in Handlers :
             /\ (Running /\ handler[h].pc = "awaitUpsert"
                         /\ upOp[h] \in {"applied", "failed"})
                   => ENABLED UpsertReturn(h)
             /\ (UpsertReturn(h) /\ upOp[h] = "applied" /\ redisUp)
                   => channelLog' = Append(channelLog,
                          [channel |-> "telemetry",
                           payload |-> JSON_stringify(handler[h].data)])
             /\ \A ok \in BOOLEAN :
                   RawInsertDone(h, ok) =>
                      UNCHANGED <<proc, ingestVars, upOp, latestColl,
                                  appliedOrder, redisVars, obsVars, subInbox,
                                  received>>
        /\ \A c \in Agents :
             (Running /\ ingestState[c] = "OPEN" /\ nextMsg < MaxMsgs)
                => ENABLED (\E m \in Msgs : Receive(c, m))
      ]_vars

\* One report went all the way while its raw insert had failed, another
\* while its raw insert was still pending; the connection is open.
C15_Witness ==
    /\ ingestState["a1"] = "OPEN"
    /\ \E h1, h2 \in Handlers :
          /\ handler[h1].pc = "done" /\ upOp[h1] = "applied"
          /\ rawOp[h1] = "failed"
          /\ handler[h2].pc = "done" /\ upOp[h2] = "applied"
          /\ rawOp[h2] = "pending"
          /\ Len(channelLog) = 2

(* ------------------------------- C16 ----------------------------------- *)
\* C16: when the handler of a valid report whose upsert was applied goes on
\* to publish while the backend is down, the projection keeps the write,
\* every open observer of the process is sent the report, and the ingest
\* connection stays as it was.
C16_PublishFailureNotPropagated ==
    [][ \A h \in Handlers :
          ( /\ handler[h].pc = "awaitUpsert"
            /\ handler'[h].pc # "awaitUpsert"
            /\ upOp[h] = "applied"
            /\ ~redisUp )
          => /\ latestColl' = latestColl
             /\ Matching(latestColl, VehicleOf(handler[h].data)) # {}
             /\ \A o \in Observers : readyState[o] = "OPEN" =>
                   received'[o] = Append(received[o],
                                         JSON_stringify(handler[h].data))
             /\ ingestState' = ingestState
      ]_vars

(* ------------------------------- C17 ----------------------------------- *)
\* C17: in the main gateway every open observer connection is in the
\* registry and no connection that has emitted 'close' is; when a handler
\* fans a report out, each open connection is sent it exactly then, and a
\* connection that is not open, or not in the registry, is sent nothing.
C17_BroadcastToOpenRegisteredOnly ==
    [][ /\ \A o \in Observers :
             /\ readyState'[o] = "OPEN" => o \in streamClients'
             /\ readyState'[o] \in {"NONE", "CLOSED"} => o \notin streamClients'
        /\ \A h \in Handlers : UpsertReturn(h) =>
             \A o \in Observers :
                /\ readyState[o] = "OPEN" =>
                      received'[o] = Append(received[o],
                                            JSON_stringify(handler[h].data))
                /\ (readyState[o] # "OPEN" \/ o \notin streamClients) =>
                      received'[o] = received[o]
      ]_vars

\* A report was fanned out while one observer was open, and later another
\* while that observer was closing and still registered, and a second
\* observer, connected in between, got only the later one.
C17_Witness ==
    /\ events["o1"] = <<>>
    /\ "o1" \in streamClients
    /\ readyState["o1"] = "CLOSING"
    /\ readyState["o2"] = "OPEN"
    /\ Len(received["o1"]) = 1
    /\ Len(received["o2"]) = 1
    /\ received["o1"] # received["o2"]
    /\ \A h \in Handlers : handler[h].pc = "done"

(* ------------------------------- C18 ----------------------------------- *)
LiveSubscriptions ==
    {o \in Observers :
        subState[o] \in {"subscribing", "subscribed", "resubscribing"}}
LiveConnections ==
    {o \in Observers : readyState[o] \in {"OPEN", "CLOSING"} /\ events[o] = <<>>}

\* C18: on the pub/sub delivery path an observer connection holds its
\* subscription exactly while it is alive, so that a connection that has
\* emitted 'close' or 'error' holds none and there are never more live
\* subscriptions than live connections.
C18_SubscriptionScopedToConnection ==
    build = "part_000" =>
        /\ LiveSubscriptions = LiveConnections
        /\ Cardinality(LiveSubscriptions) <= Cardinality(LiveConnections)

(* ------------------------------- C19 ----------------------------------- *)
\* The handlers that have fanned out payload p.
FannedOut(p) ==
    {h \in Handlers : handler[h].pc = "done" /\ JSON_stringify(handler[h].data) = p}

\* C19: in the main gateway every payload sent to an observer is the
\* serialization of the validated content of a frame that was received, and
\* an observer is sent a payload at most as many times as handlers have
\* fanned it out: once per received valid report.
C19_NoSpuriousNoDuplicate ==
    \A o \in Observers : \A i \in DOMAIN received[o] :
        LET p == received[o][i] IN
        /\ \E m \in ValidMsgs : p = JSON_stringify(Telemetry_parse(m))
        /\ FannedOut(p) # {}
        /\ Cardinality(Occurrences(received[o], p)) <= Cardinality(FannedOut(p))

(* ------------------------------- C20 ----------------------------------- *)
\* C20: an upgrade request creates an ingest connection exactly when its
\* path is the ingest path and an observer connection exactly when its
\* path is the observe path; with any other path it is refused and the
\* connections, the registry and the subscriptions are as they were.
C20_PathSelectsConnectionType ==
    [][ \A u \in Urls, c \in Agents, o \in Observers : Upgrade(u, c, o) =>
          /\ Pathname(u) = <<IngestPath>> =>
                /\ lastUpgrade'.result = "ingest"
                /\ ingestState'[c] = "OPEN"
                /\ \A d \in Agents \ {c} : ingestState'[d] = ingestState[d]
                /\ UNCHANGED <<readyState, streamClients, subState>>
          /\ Pathname(u) = <<StreamPath>> =>
                /\ lastUpgrade'.result = "stream"
                /\ readyState'[o] = "OPEN"
                /\ \A q \in Observers \ {o} : readyState'[q] = readyState[q]
                /\ UNCHANGED ingestState
          /\ Pathname(u) \notin {<<IngestPath>>, <<StreamPath>>} =>
                /\ lastUpgrade'.result \in {"destroyed", "aborted"}
                /\ UNCHANGED <<ingestState, readyState, streamClients,
                               subState, cleanups, events>>
      ]_vars

\* A request whose URL begins like the ingest path but is another path has
\* been refused while two agents and an observer were connected: nothing
\* was created.
C20_Witness ==
    /\ lastUpgrade = [url |-> <<IngestPath, "-debug">>, result |-> "aborted"]
    /\ ingestState["a1"] = "OPEN"
    /\ ingestState["a2"] = "OPEN"
    /\ readyState["o1"] = "OPEN"
    /\ readyState["o2"] = "NONE"

====
